---- MODULE Spec2Model ----
(***************************************************************************)
(* The layered configuration store of the options engine                   *)
(* (src/rust/engine/options/src/config.rs): construction of a Config from  *)
(* a parsed TOML value, Config::merge and Config::merged, and the          *)
(* OptionsSource accessors implemented on Config.                          *)
(*                                                                         *)
(* A toml::Value is a record [kind, val]; a Table's val is a function from *)
(* its keys to Values and an Array's val is a sequence of Values.  A       *)
(* Config is identified with its one field, the Value `config`.            *)
(***************************************************************************)
EXTENDS Integers, Sequences, FiniteSets, TLC

VARIABLES config, panicked, op, file, self, other, layers, id, parsed, result

vars == <<config, panicked, op, file, self, other, layers, id, parsed, result>>

(***************************************************************************)
(* Bounds                                                                  *)
(***************************************************************************)
MaxLayers == 3

MaxItems == 2

(***************************************************************************)
(* toml::Value                                                             *)
(***************************************************************************)
String(s) == [kind |-> "String", val |-> s]

Integer(n) == [kind |-> "Integer", val |-> n]

Float(n) == [kind |-> "Float", val |-> n]

Boolean(b) == [kind |-> "Boolean", val |-> b]

Datetime == [kind |-> "Datetime", val |-> 0]

Array(items) == [kind |-> "Array", val |-> items]

Table(entries) == [kind |-> "Table", val |-> entries]

EmptyTable == [k \in {} |-> Datetime]

\* The value a panicking thread leaves behind: no Config is produced.
Panic == [kind |-> "Panic", val |-> 0]

is_table(value) == value.kind = "Table"

\* toml::Value::get with a string index: Some(entry) on a table holding the
\* key, None on a missing key and on every value that is not a table.
None == [tag |-> "None"]

Some(v) == [tag |-> "Some", val |-> v]

ValueGet(value, key) ==
  IF is_table(value) /\ key \in DOMAIN value.val
    THEN Some(value.val[key])
    ELSE None

\* Map::extend: the entries of `more` are inserted over those of `entries`.
Extend(entries, more) ==
  [k \in (DOMAIN entries) \cup (DOMAIN more) |->
     IF k \in DOMAIN more THEN more[k] ELSE entries[k]]

\* Result::Err of an accessor: the text the message puts in place of the
\* option ({id} or {option_name}), and the values it prints.
Err(expected, name, given) ==
  [tag |-> "Err", expected |-> expected, name |-> name, given |-> given]

(***************************************************************************)
(* OptionId (super::id): a scope and an option name.                       *)
(***************************************************************************)
Scopes == {"GLOBAL", "test"}

Names == {"opt", "other_opt"}

OptionIds == [scope : Scopes, name : Names]

\* OptionId::name("_", NameTransform::None): the option name, without scope.
OptionIdName(oid) == oid.name

\* Display for OptionId: the scope and the option name.
OptionIdDisplay(oid) == <<oid.scope, oid.name>>

option_name(oid) == OptionIdName(oid)

display(oid) == OptionIdDisplay(oid)

(***************************************************************************)
(* Config::default, Config::parse, Config::merge, Config::merged           *)
(***************************************************************************)
default == Table(EmptyTable)

ParseOk(value) == [tag |-> "Ok", config |-> value, error |-> "none"]

ParseErr(why) == [tag |-> "Err", config |-> Panic, error |-> why]

\* `input` is what reading the file and parsing its text gave: io says
\* whether both succeeded, value is the parsed toml::Value.
parse_no_section_check(input) ==
  IF input.io = "unreadable" THEN ParseErr("Failed to read config file")
  ELSE IF input.io = "malformed" THEN ParseErr("Failed to parse config file")
  ELSE IF ~is_table(input.value) THEN ParseErr("Expected a table")
  ELSE ParseOk(input.value)

parse(input) ==
  IF input.io = "unreadable" THEN ParseErr("Failed to read config file")
  ELSE IF input.io = "malformed" THEN ParseErr("Failed to parse config file")
  ELSE IF ~is_table(input.value) THEN ParseErr("Expected a table")
  ELSE IF \E key \in DOMAIN input.value.val : ~is_table(input.value.val[key])
    THEN ParseErr("Expected tables per section")
  ELSE ParseOk(input.value)

\* The unwraps of merge: as_table_mut() on both roots, and on both sections
\* of every scope the two stores share.
MergeUnwraps(a, b) ==
  /\ is_table(a)
  /\ is_table(b)
  /\ \A scope \in (DOMAIN a.val) \cap (DOMAIN b.val) :
       is_table(a.val[scope]) /\ is_table(b.val[scope])

merge_self_wins(a, b) ==
  IF ~MergeUnwraps(a, b) THEN Panic
  ELSE
    LET map == [scope \in DOMAIN a.val |->
                  IF scope \in DOMAIN b.val
                    THEN Table(Extend(b.val[scope].val, a.val[scope].val))
                    ELSE a.val[scope]]
        rest == [scope \in (DOMAIN b.val) \ (DOMAIN a.val) |-> b.val[scope]]
    IN  Table(Extend(map, rest))

merge(a, b) ==
  IF ~MergeUnwraps(a, b) THEN Panic
  ELSE
    LET map == [scope \in DOMAIN a.val |->
                  IF scope \in DOMAIN b.val
                    THEN Table(Extend(a.val[scope].val, b.val[scope].val))
                    ELSE a.val[scope]]
        rest == [scope \in (DOMAIN b.val) \ (DOMAIN a.val) |-> b.val[scope]]
    IN  Table(Extend(map, rest))

RECURSIVE FoldMerge(_, _)
FoldMerge(acc, configs) ==
  IF configs = <<>> THEN acc
  ELSE FoldMerge(merge(acc, Head(configs)), Tail(configs))

RECURSIVE FoldMergeRight(_, _)
FoldMergeRight(acc, configs) ==
  IF configs = <<>> THEN acc
  ELSE merge(FoldMergeRight(acc, Tail(configs)), Head(configs))

merged_first_wins(configs) == FoldMergeRight(default, configs)

merged(configs) == FoldMerge(default, configs)

get_value_global_fallback(cfg, oid) ==
  LET table == ValueGet(cfg, oid.scope)
  IN  IF table.tag = "None"
        THEN LET global == ValueGet(cfg, "GLOBAL")
             IN  IF global.tag = "None" THEN None
                 ELSE ValueGet(global.val, option_name(oid))
        ELSE ValueGet(table.val, option_name(oid))

get_value(cfg, oid) ==
  LET table == ValueGet(cfg, oid.scope)
  IN  IF table.tag = "None" THEN None
      ELSE ValueGet(table.val, option_name(oid))

(***************************************************************************)
(* OptionsSource for Config: the scalar accessors                          *)
(***************************************************************************)
get_string(cfg, oid) ==
  LET value == get_value(cfg, oid)
  IN  IF value.tag = "Some"
        THEN IF value.val.kind = "String"
               THEN Some(value.val.val)
               ELSE Err("a string", display(oid), <<value.val>>)
        ELSE None

get_bool(cfg, oid) ==
  LET value == get_value(cfg, oid)
  IN  IF value.tag = "Some"
        THEN IF value.val.kind = "Boolean"
               THEN Some(value.val.val)
               ELSE Err("a bool", display(oid), <<value.val>>)
        ELSE None

get_int(cfg, oid) ==
  LET value == get_value(cfg, oid)
  IN  IF value.tag = "Some"
        THEN IF value.val.kind = "Integer"
               THEN Some(value.val.val)
               ELSE Err("an int", display(oid), <<value.val>>)
        ELSE None

get_float_coercing(cfg, oid) ==
  LET value == get_value(cfg, oid)
  IN  IF value.tag = "Some"
        THEN IF value.val.kind \in {"Float", "Integer"}
               THEN Some(value.val.val)
               ELSE Err("a float", display(oid), <<value.val>>)
        ELSE None

get_float(cfg, oid) ==
  LET value == get_value(cfg, oid)
  IN  IF value.tag = "Some"
        THEN IF value.val.kind = "Float"
               THEN Some(value.val.val)
               ELSE Err("a float", display(oid), <<value.val>>)
        ELSE None

(***************************************************************************)
(* get_string_list                                                         *)
(***************************************************************************)
Ok(v) == [tag |-> "Ok", val |-> v]

ListEdit(action, items) == [action |-> action, items |-> items]

\* The first element of the array that is not a string.
FirstNonString(array) ==
  array[CHOOSE i \in 1..Len(array) :
          /\ array[i].kind # "String"
          /\ \A j \in 1..(i - 1) : array[j].kind = "String"]

extract_string_list_skipping(name, value) ==
  IF value.kind = "Array"
    THEN LET strings == SelectSeq(value.val, LAMBDA item : item.kind = "String")
         IN  Ok([i \in 1..Len(strings) |-> strings[i].val])
    ELSE Err("a toml array or Python sequence", name, <<value>>)

extract_string_list(name, value) ==
  IF value.kind = "Array"
    THEN IF \E i \in 1..Len(value.val) : value.val[i].kind # "String"
           THEN Err("an array of strings", name,
                    <<value, FirstNonString(value.val)>>)
           ELSE Ok([i \in 1..Len(value.val) |-> value.val[i].val])
    ELSE Err("a toml array or Python sequence", name, <<value>>)

TableArm_remove_first(name, sub_table) ==
  IF sub_table = EmptyTable \/ ~((DOMAIN sub_table) \subseteq {"add", "remove"})
    THEN Err("an 'add' element, a 'remove' element or both", <<name>>,
             <<Table(sub_table)>>)
  ELSE
    LET add == IF "add" \in DOMAIN sub_table
                 THEN extract_string_list(<<name, "add">>, sub_table["add"])
                 ELSE Ok(<<>>)
        remove == IF "remove" \in DOMAIN sub_table
                    THEN extract_string_list(<<name, "remove">>,
                                             sub_table["remove"])
                    ELSE Ok(<<>>)
    IN  IF remove.tag = "Err" THEN remove
        ELSE IF add.tag = "Err" THEN add
        ELSE Ok((IF "remove" \in DOMAIN sub_table
                   THEN <<ListEdit("Remove", remove.val)>> ELSE <<>>)
                \o (IF "add" \in DOMAIN sub_table
                      THEN <<ListEdit("Add", add.val)>> ELSE <<>>))

\* The Value::Table arm: the edits pushed to list_edits, or the error the
\* arm returns.
TableArm(name, sub_table) ==
  IF sub_table = EmptyTable \/ ~((DOMAIN sub_table) \subseteq {"add", "remove"})
    THEN Err("an 'add' element, a 'remove' element or both", <<name>>,
             <<Table(sub_table)>>)
  ELSE
    LET add == IF "add" \in DOMAIN sub_table
                 THEN extract_string_list(<<name, "add">>, sub_table["add"])
                 ELSE Ok(<<>>)
        remove == IF "remove" \in DOMAIN sub_table
                    THEN extract_string_list(<<name, "remove">>,
                                             sub_table["remove"])
                    ELSE Ok(<<>>)
    IN  IF add.tag = "Err" THEN add
        ELSE IF remove.tag = "Err" THEN remove
        ELSE Ok((IF "add" \in DOMAIN sub_table
                   THEN <<ListEdit("Add", add.val)>> ELSE <<>>)
                \o (IF "remove" \in DOMAIN sub_table
                      THEN <<ListEdit("Remove", remove.val)>> ELSE <<>>))

\* The Value::String arm: `outcome` is what parse_string_list(v) returned.
StringArm(name, v, outcome) ==
  IF outcome.tag = "Ok"
    THEN Ok(outcome.val)
    ELSE Err("a list edit string", <<name>>, <<String(v)>>)

\* The last arm: every other value.
FallbackArm(name, value) ==
  LET items == extract_string_list(<<name>>, value)
  IN  IF items.tag = "Err" THEN items
      ELSE Ok(<<ListEdit("Replace", items.val)>>)

get_string_list_no_guard(cfg, oid, outcome) ==
  LET table == ValueGet(cfg, oid.scope)
  IN  IF table.tag = "None" THEN None
      ELSE
        LET name == option_name(oid)
            value == ValueGet(table.val, name)
            list_edits ==
              IF value.tag = "None" THEN Ok(<<>>)
              ELSE IF value.val.kind = "Table"
                THEN TableArm(name, value.val.val)
              ELSE IF value.val.kind = "String"
                THEN StringArm(name, value.val.val, outcome)
              ELSE FallbackArm(name, value.val)
        IN  IF list_edits.tag = "Err" THEN list_edits
            ELSE IF value.tag = "None" THEN None
            ELSE Some(list_edits.val)

get_string_list(cfg, oid, outcome) ==
  LET table == ValueGet(cfg, oid.scope)
  IN  IF table.tag = "None" THEN None
      ELSE
        LET name == option_name(oid)
            value == ValueGet(table.val, name)
            list_edits ==
              IF value.tag = "None" THEN Ok(<<>>)
              ELSE IF value.val.kind = "Table"
                THEN TableArm(name, value.val.val)
              ELSE IF value.val.kind = "String"
                THEN StringArm(name, value.val.val, outcome)
              ELSE FallbackArm(name, value.val)
        IN  IF list_edits.tag = "Err" THEN list_edits
            ELSE IF list_edits.val # <<>> THEN Some(list_edits.val)
            ELSE None

(***************************************************************************)
(* get_string_dict                                                         *)
(***************************************************************************)
Literal(s) == [dict |-> "Literal", val |-> s]

Native(entries) == [dict |-> "Native", val |-> entries]

get_string_dict_lenient(cfg, oid) ==
  LET section == ValueGet(cfg, oid.scope)
  IN  IF section.tag = "None" THEN None
      ELSE
        LET value == ValueGet(section.val, option_name(oid))
        IN  IF value.tag = "None" THEN None
            ELSE IF value.val.kind = "String"
              THEN Some(Literal(value.val.val))
            ELSE IF value.val.kind = "Table"
              THEN Some(Native([k \in DOMAIN value.val.val |->
                                  value.val.val[k]]))
            ELSE None

get_string_dict(cfg, oid) ==
  LET section == ValueGet(cfg, oid.scope)
  IN  IF section.tag = "None" THEN None
      ELSE
        LET value == ValueGet(section.val, option_name(oid))
        IN  IF value.tag = "None" THEN None
            ELSE IF value.val.kind = "String"
              THEN Some(Literal(value.val.val))
            ELSE IF value.val.kind = "Table"
              THEN Some(Native([k \in DOMAIN value.val.val |->
                                  value.val.val[k]]))
            ELSE Err("of type string or table", display(oid), <<value.val>>)

(***************************************************************************)
(* Inputs                                                                  *)
(***************************************************************************)
SeqsUpTo(S, n) == UNION {[1..k -> S] : k \in 0..n}

TablesOver(Keys, Values) == UNION {[K -> Values] : K \in SUBSET Keys}

File(value) == [io |-> "ok", value |-> value]

NoFile == [io |-> "none", value |-> Datetime]

FailedFiles == {[io |-> "unreadable", value |-> Datetime],
                [io |-> "malformed", value |-> Datetime]}

\* Config files of the layering machine: two scopes of two options, each a
\* bare list or an add table; a section or the root may also have the wrong
\* shape.
LayerValues == {Array(<<String("a")>>), Table([add |-> Array(<<String("b")>>)])}

LayerSections == {Table(t) : t \in TablesOver(Names, LayerValues)}

LayerFiles ==
  {File(Table(r)) : r \in TablesOver(Scopes, LayerSections \cup {String("a")})}
    \cup {File(Array(<<>>)), File(String("a"))}
    \cup FailedFiles

\* The layers handed to Config::merged: files that set at most one option.
SingleOptionFiles ==
  {File(Table(scope :> Table(name :> v))) :
     scope \in Scopes, name \in Names, v \in LayerValues}
    \cup {File(Table(scope :> Table(EmptyTable))) : scope \in Scopes}
    \cup {File(Table(EmptyTable))}

\* Config files of the accessor machine: one option in one scope, of every
\* shape the accessors tell apart.
Scalars == {String("a"), Integer(1), Float(1), Boolean(TRUE), Datetime}

Arrays ==
  {Array(a) : a \in SeqsUpTo({String("a"), String("b"), Integer(1)}, MaxItems)}

SubValues ==
  {Array(a) : a \in SeqsUpTo({String("a"), Integer(1)}, MaxItems)}
    \cup {Integer(1)}

SubTables == {Table(t) : t \in TablesOver({"add", "remove", "bogus"}, SubValues)}

OptionValues == Scalars \cup Arrays \cup SubTables

OptionFiles ==
  {File(Table(scope :> Table(name :> v))) :
     scope \in Scopes, name \in Names, v \in OptionValues}
    \cup {File(Table(scope :> Table(EmptyTable))) : scope \in Scopes}
    \cup {File(Table(EmptyTable))}

\* What the string-list parser of super::parse may return for the string v.
NotCalled == [tag |-> "NotCalled", val |-> <<>>]

ParseStringListOutcomes(v) ==
  {[tag |-> "Err", val |-> <<>>],
   Ok(<<>>),
   Ok(<<ListEdit("Add", <<v>>)>>),
   Ok(<<ListEdit("Replace", <<>>)>>),
   Ok(<<ListEdit("Add", <<v>>), ListEdit("Remove", <<v>>)>>)}

\* parse_string_list runs only when the option holds a string.
Outcomes(cfg, oid) ==
  LET value == get_value(cfg, oid)
  IN  IF value.tag = "Some" /\ value.val.kind = "String"
        THEN ParseStringListOutcomes(value.val.val)
        ELSE {NotCalled}

NoId == [scope |-> "", name |-> ""]

(***************************************************************************)
(* The layering machine: a caller that builds, parses and merges stores    *)
(* and reads the current one.  op names the last operation; file, self,    *)
(* other, layers, id and parsed are its inputs and result its output.      *)
(***************************************************************************)
Init ==
  /\ config = default
  /\ panicked = FALSE
  /\ op = "default"
  /\ file = NoFile
  /\ self = default
  /\ other = default
  /\ layers = <<>>
  /\ id = NoId
  /\ parsed = NotCalled
  /\ result = None

Default ==
  /\ ~panicked
  /\ op' = "default"
  /\ config' = default
  /\ file' = NoFile /\ self' = default /\ other' = default /\ layers' = <<>>
  /\ id' = NoId /\ parsed' = NotCalled /\ result' = None
  /\ UNCHANGED panicked

ParseFrom(Files) ==
  \E f \in Files :
    /\ ~panicked
    /\ op' = "parse"
    /\ file' = f
    /\ config' = IF parse(f).tag = "Ok" THEN parse(f).config ELSE config
    /\ result' = IF parse(f).tag = "Ok" THEN None
                 ELSE Err(parse(f).error, <<>>, <<>>)
    /\ self' = default /\ other' = default /\ layers' = <<>>
    /\ id' = NoId /\ parsed' = NotCalled
    /\ UNCHANGED panicked

Parse == ParseFrom(LayerFiles)

\* config.merge(other), other a freshly parsed store.
Merge ==
  \E f \in LayerFiles :
    /\ ~panicked
    /\ parse(f).tag = "Ok"
    /\ op' = "merge"
    /\ self' = config
    /\ other' = parse(f).config
    /\ LET m == merge(config, parse(f).config)
       IN  /\ panicked' = (m = Panic)
           /\ config' = IF m = Panic THEN config ELSE m
    /\ file' = NoFile /\ layers' = <<>>
    /\ id' = NoId /\ parsed' = NotCalled /\ result' = None

\* Config::merged over up to MaxLayers freshly parsed stores, called on a
\* fresh session (merged is static and reads nothing of the current store).
Merged ==
  \E fs \in SeqsUpTo({f \in SingleOptionFiles : parse(f).tag = "Ok"}, MaxLayers) :
    /\ ~panicked
    /\ op = "default"
    /\ op' = "merged"
    /\ layers' = [i \in 1..Len(fs) |-> parse(fs[i]).config]
    /\ LET m == merged([i \in 1..Len(fs) |-> parse(fs[i]).config])
       IN  /\ panicked' = (m = Panic)
           /\ config' = IF m = Panic THEN config ELSE m
    /\ file' = NoFile /\ self' = default /\ other' = default
    /\ id' = NoId /\ parsed' = NotCalled /\ result' = None

Access(name, oid, outcome, res) ==
  /\ ~panicked
  /\ op' = name
  /\ id' = oid
  /\ parsed' = outcome
  /\ result' = res
  /\ file' = NoFile /\ self' = default /\ other' = default /\ layers' = <<>>
  /\ UNCHANGED <<config, panicked>>

GetString ==
  \E oid \in OptionIds :
    Access("get_string", oid, NotCalled, get_string(config, oid))

GetBool ==
  \E oid \in OptionIds :
    Access("get_bool", oid, NotCalled, get_bool(config, oid))

GetInt ==
  \E oid \in OptionIds :
    Access("get_int", oid, NotCalled, get_int(config, oid))

GetFloat ==
  \E oid \in OptionIds :
    Access("get_float", oid, NotCalled, get_float(config, oid))

GetStringList ==
  \E oid \in OptionIds :
    \E outcome \in Outcomes(config, oid) :
      Access("get_string_list", oid, outcome,
             get_string_list(config, oid, outcome))

GetStringDict ==
  \E oid \in OptionIds :
    Access("get_string_dict", oid, NotCalled, get_string_dict(config, oid))

Next ==
  \/ Default
  \/ Parse
  \/ Merge
  \/ Merged
  \/ GetString
  \/ GetBool
  \/ GetInt
  \/ GetFloat
  \/ GetStringList
  \/ GetStringDict

Spec == Init /\ [][Next]_vars

(***************************************************************************)
(* The accessor machine: a store parsed from one of OptionFiles, read by   *)
(* every accessor under every option id.                                   *)
(***************************************************************************)
InitAccess ==
  /\ \E f \in OptionFiles :
       /\ parse(f).tag = "Ok"
       /\ file = f
       /\ config = parse(f).config
  /\ panicked = FALSE
  /\ op = "parse"
  /\ self = default
  /\ other = default
  /\ layers = <<>>
  /\ id = NoId
  /\ parsed = NotCalled
  /\ result = None

NextAccess ==
  \/ GetString
  \/ GetBool
  \/ GetInt
  \/ GetFloat
  \/ GetStringList
  \/ GetStringDict

SpecAccess == InitAccess /\ [][NextAccess]_vars

(***************************************************************************)
(* Properties                                                              *)
(***************************************************************************)
Defines(store, oid) ==
  /\ oid.scope \in DOMAIN store.val
  /\ oid.name \in DOMAIN store.val[oid.scope].val

Raw(store, oid) == store.val[oid.scope].val[oid.name]

IsStringArray(v) ==
  /\ v.kind = "Array"
  /\ \A i \in 1..Len(v.val) : v.val[i].kind = "String"

Items(v) == [i \in 1..Len(v.val) |-> v.val[i].val]

ScalarOps == {"get_string", "get_bool", "get_int", "get_float"}

AccessorOps == ScalarOps \cup {"get_string_list", "get_string_dict"}

VariantOf(name) ==
  CASE name = "get_string" -> "String"
    [] name = "get_bool" -> "Boolean"
    [] name = "get_int" -> "Integer"
    [] name = "get_float" -> "Float"

\* C1: after config.merge(other), every (scope, option) pair resolves to
\* other's raw value if other defines it, else to self's raw value if self
\* defines it, else to nothing; the winning value is taken whole.
MergePrecedence ==
  (op = "merge" /\ ~panicked) =>
    \A oid \in OptionIds :
      get_value(config, oid) =
        IF Defines(other, oid) THEN Some(Raw(other, oid))
        ELSE IF Defines(self, oid) THEN Some(Raw(self, oid))
        ELSE None

\* A merge of two stores sharing two scopes: in one, other's bare list
\* replaced self's add table while self's second option survived; in the
\* other, an option of other alone was added.
MergePrecedenceWitness ==
  /\ op = "merge"
  /\ \E a, b \in OptionIds :
       /\ a.scope = b.scope /\ a.name # b.name
       /\ Defines(self, a) /\ Defines(other, a)
       /\ Raw(self, a).kind = "Table" /\ Raw(other, a).kind = "Array"
       /\ Defines(self, b) /\ ~Defines(other, b)
       /\ Defines(config, a) /\ Raw(config, a) = Raw(other, a)
       /\ Defines(config, b) /\ Raw(config, b) = Raw(self, b)
  /\ \E c \in OptionIds :
       /\ c.scope \in DOMAIN self.val
       /\ ~Defines(self, c) /\ Defines(other, c)
       /\ Defines(config, c) /\ Raw(config, c) = Raw(other, c)

Latest(S) == CHOOSE i \in S : \A j \in S : j <= i

\* C2: Config::merged resolves every (scope, option) pair to the value of
\* the last layer that defines it, to nothing if no layer does, and gives the
\* empty store for the empty sequence.
MergedLastLayerWins ==
  (op = "merged" /\ ~panicked) =>
    /\ \A oid \in OptionIds :
         LET definers == {i \in 1..Len(layers) : Defines(layers[i], oid)}
         IN  get_value(config, oid) =
               IF definers = {} THEN None
               ELSE Some(Raw(layers[Latest(definers)], oid))
    /\ layers = <<>> => config = Table(EmptyTable)

\* Two layers set the same option to different values and the later one's
\* value is the one the merged store holds.
MergedLastLayerWinsWitness ==
  /\ op = "merged"
  /\ \E oid \in OptionIds :
       \E i, j \in 1..Len(layers) :
         /\ i < j
         /\ Defines(layers[i], oid) /\ Defines(layers[j], oid)
         /\ Raw(layers[i], oid) # Raw(layers[j], oid)
         /\ \A k \in (j + 1)..Len(layers) : ~Defines(layers[k], oid)
         /\ Defines(config, oid)
         /\ Raw(config, oid) = Raw(layers[j], oid)

IllShaped(value) ==
  \/ ~is_table(value)
  \/ \E key \in DOMAIN value.val : ~is_table(value.val[key])

\* C3: the current store always has a table as root and a table under every
\* scope, no unwrap of merge has failed, and parse answered an ill-shaped
\* file with an error and no store.
StoreShape ==
  /\ ~panicked
  /\ ~IllShaped(config)
  /\ (op = "parse" /\ file.io = "ok" /\ IllShaped(file.value)) =>
       result.tag = "Err"

\* A merge whose two stores share a scope, so that the section unwraps ran.
StoreShapeWitness ==
  /\ op = "merge"
  /\ ~panicked
  /\ (DOMAIN self.val) \cap (DOMAIN other.val) # {}
  /\ self # default
  /\ config # self

\* C4: a scalar accessor returns None for an absent scope or option,
\* Some(v) when the raw value is exactly its variant, and an error for every
\* other variant: no integer is read as a float, no float as an integer.
ScalarExactVariant ==
  op \in ScalarOps =>
    IF ~Defines(config, id) THEN result = None
    ELSE IF Raw(config, id).kind = VariantOf(op)
      THEN result = Some(Raw(config, id).val)
      ELSE result.tag = "Err"

\* get_float was called on an option holding an integer and returned an
\* error.
ScalarExactVariantWitness ==
  /\ op = "get_float"
  /\ Defines(config, id)
  /\ Raw(config, id) = Integer(1)
  /\ result.tag = "Err"

ExpectedEdits(t) ==
  IF DOMAIN t = {"add", "remove"}
    THEN <<ListEdit("Add", Items(t["add"])),
           ListEdit("Remove", Items(t["remove"]))>>
  ELSE IF DOMAIN t = {"add"} THEN <<ListEdit("Add", Items(t["add"]))>>
  ELSE <<ListEdit("Remove", Items(t["remove"]))>>

\* C5: on a table value get_string_list fails if the table is empty or has a
\* key other than add and remove, or if a present key does not hold an array
\* of strings; otherwise it returns the edits of the present keys, Add
\* before Remove.
TableEdits ==
  (op = "get_string_list" /\ Defines(config, id)
     /\ Raw(config, id).kind = "Table") =>
    LET t == Raw(config, id).val
    IN  IF DOMAIN t = {} \/ ~(DOMAIN t \subseteq {"add", "remove"})
          THEN result.tag = "Err"
        ELSE IF \E k \in DOMAIN t : ~IsStringArray(t[k])
          THEN result.tag = "Err"
        ELSE result = Some(ExpectedEdits(t))

\* A table with both keys, holding different lists, gave Add then Remove.
TableEditsWitness ==
  /\ op = "get_string_list"
  /\ Defines(config, id)
  /\ Raw(config, id).kind = "Table"
  /\ DOMAIN Raw(config, id).val = {"add", "remove"}
  /\ result.tag = "Some"
  /\ Len(result.val) = 2
  /\ result.val[1].action = "Add"
  /\ result.val[2].action = "Remove"
  /\ result.val[1].items # result.val[2].items

\* C6: on a value that is neither a table nor a string get_string_list
\* returns exactly one Replace edit holding the elements in order if the
\* value is an array of strings (the empty array included), and an error
\* otherwise.
BareArrayReplaces ==
  (op = "get_string_list" /\ Defines(config, id)
     /\ Raw(config, id).kind \notin {"Table", "String"}) =>
    IF IsStringArray(Raw(config, id))
      THEN result = Some(<<ListEdit("Replace", Items(Raw(config, id)))>>)
      ELSE result.tag = "Err"

\* A bare array of two different strings gave one Replace edit in order.
BareArrayReplacesWitness ==
  /\ op = "get_string_list"
  /\ Defines(config, id)
  /\ Raw(config, id).kind = "Array"
  /\ Len(Raw(config, id).val) >= 2
  /\ result.tag = "Some"
  /\ Len(result.val) = 1
  /\ result.val[1].action = "Replace"
  /\ Len(result.val[1].items) >= 2
  /\ result.val[1].items[1] # result.val[1].items[2]

\* C7: get_string_dict returns None for an absent scope or option,
\* Literal(s) for a string s, Native with exactly the table's keys and
\* their raw values for a table, and an error for every other variant.
StringDictShapes ==
  op = "get_string_dict" =>
    IF ~Defines(config, id) THEN result = None
    ELSE IF Raw(config, id).kind = "String"
      THEN result = Some(Literal(Raw(config, id).val))
    ELSE IF Raw(config, id).kind = "Table"
      THEN /\ result.tag = "Some"
           /\ result.val.dict = "Native"
           /\ DOMAIN result.val.val = DOMAIN Raw(config, id).val
           /\ \A k \in DOMAIN result.val.val :
                result.val.val[k] = Raw(config, id).val[k]
    ELSE result.tag = "Err"

\* A table of several keys, one of them not a list, came back as Native.
StringDictShapesWitness ==
  /\ op = "get_string_dict"
  /\ Defines(config, id)
  /\ Raw(config, id).kind = "Table"
  /\ Cardinality(DOMAIN Raw(config, id).val) >= 2
  /\ \E k \in DOMAIN Raw(config, id).val : Raw(config, id).val[k].kind = "Integer"
  /\ result.tag = "Some"
  /\ result.val.dict = "Native"

\* C8: every accessor returns None, never an error, for an option id whose
\* scope is not a key of the store.
AbsentScopeIsNone ==
  (op \in AccessorOps /\ id.scope \notin DOMAIN config.val) =>
    result = None

\* get_string_list was called for a scope the store lacks, on a store whose
\* other scope sets the very same option name.
AbsentScopeIsNoneWitness ==
  /\ op = "get_string_list"
  /\ id.scope \notin DOMAIN config.val
  /\ \E oid \in OptionIds : oid.name = id.name /\ Defines(config, oid)
  /\ result = None

\* C9: every error an accessor returns names the option by its scope and
\* its option name; an error about a value under add or remove names
\* scope, option and sub-key.
ErrorsNameScopeAndOption ==
  (op \in AccessorOps /\ result.tag = "Err") =>
    /\ Len(result.name) >= 2
    /\ result.name[1] = id.scope
    /\ result.name[2] = id.name

\* C10 as stated: get_string_list never returns Some of no edits, and
\* returns None only when the scope or the option key is absent.
NoneOnlyWhenAbsent ==
  op = "get_string_list" =>
    /\ result.tag = "Some" => result.val # <<>>
    /\ result.tag = "None" => ~Defines(config, id)

\* C10 as amended: get_string_list never returns Some of no edits, and
\* returns None only when the scope or the option key is absent, or when
\* the option is a string for which the string-list parser returned no
\* edits.
NoneOnlyWhenAbsentOrNoEdits ==
  op = "get_string_list" =>
    /\ result.tag = "Some" => result.val # <<>>
    /\ result.tag = "None" =>
         \/ ~Defines(config, id)
         \/ (Raw(config, id).kind = "String" /\ parsed = Ok(<<>>))

\* A string option whose parse gave no edits was answered with None.
NoneOnlyWhenAbsentOrNoEditsWitness ==
  /\ op = "get_string_list"
  /\ Defines(config, id)
  /\ Raw(config, id).kind = "String"
  /\ parsed = Ok(<<>>)
  /\ result = None

====
